---- MODULE Spec2Model ----
(***************************************************************************)
(* Model of release.py, the two-step release script of PyHEADTAIL.         *)
(*                                                                         *)
(* Python strings are modelled as sequences of one-character strings, so   *)
(* that slicing, str.split, str.isdigit, int() and str.format are computed *)
(* the way the interpreter computes them.                                  *)
(***************************************************************************)
EXTENDS Naturals, Sequences, FiniteSets

VARIABLES
    branch,   \* name of the checked-out git branch (git rev-parse --abbrev-ref HEAD)
    dirty,    \* TRUE iff `git diff --quiet HEAD --` reports uncommitted changes
    files,    \* the files of the working directory the script touches
    last,     \* record of the tool invocation that has just ended, or Idle
    call      \* last direct call of a version function (SpecCodec only)

vars == <<branch, dirty, files, last, call>>

-----------------------------------------------------------------------------
(* Bounds of the model.                                                    *)

\* version components 0..MaxSmall are enumerated in the version functions' inputs
MaxSmall == 2

-----------------------------------------------------------------------------
(* Python string primitives.                                               *)

DigitChars == <<"0", "1", "2", "3", "4", "5", "6", "7", "8", "9">>

Digits == {DigitChars[i] : i \in 1..10}

DigitVal(c) == (CHOOSE i \in 1..10 : DigitChars[i] = c) - 1

\* str.isdigit(): non-empty and every character a decimal digit
IsDigit(p) == Len(p) > 0 /\ \A i \in 1..Len(p) : p[i] \in Digits

\* int(p) for a string of decimal digits
RECURSIVE Int(_)
Int(p) ==
    IF Len(p) = 0 THEN 0
    ELSE Int(SubSeq(p, 1, Len(p) - 1)) * 10 + DigitVal(p[Len(p)])

\* '{0}'.format(n) for an integer n >= 0
RECURSIVE Str(_)
Str(n) ==
    IF n < 10 THEN <<DigitChars[n + 1]>>
    ELSE Str(n \div 10) \o <<DigitChars[(n % 10) + 1]>>

\* s.split('.'): the pieces between the dots, empty pieces included
RECURSIVE Split(_)
Split(s) ==
    IF \A i \in 1..Len(s) : s[i] # "."
    THEN <<s>>
    ELSE LET k == CHOOSE i \in 1..Len(s) :
                      s[i] = "." /\ \A j \in 1..(i - 1) : s[j] # "."
         IN  <<SubSeq(s, 1, k - 1)>> \o Split(SubSeq(s, k + 1, Len(s)))

\* s[:n]
Head_(s, n) == SubSeq(s, 1, IF n < Len(s) THEN n ELSE Len(s))

\* s[n:]
Tail_(s, n) == SubSeq(s, n + 1, Len(s))

-----------------------------------------------------------------------------
(* CONFIG                                                                  *)

version_location == <<"_", "v", "e", "r", "s", "i", "o", "n">>

release_branch_prefix == <<"r", "e", "l", "e", "a", "s", "e", "/", "v">>

develop == <<"d", "e", "v", "e", "l", "o", "p">>

choices == {"major", "minor", "patch"}

-----------------------------------------------------------------------------
(* Results of a call: either a value or the exception that was raised.     *)

Ok(v) == [err |-> "none", val |-> v]

Raise(e) == [err |-> e, val |-> <<>>]

\* `major, minor, patch = map(int, parts)` after the isdigit assertion
ParseError(parts) ==
    IF ~ \A i \in 1..Len(parts) : IsDigit(parts[i]) THEN "AssertionError"
    ELSE IF Len(parts) # 3 THEN "ValueError_unpack"
    ELSE "none"

bumpversion_noReset(version, part) ==
    LET parts == Split(version)
        major == Int(parts[1])
        minor == Int(parts[2])
        patch == Int(parts[3])
    IN  IF ParseError(parts) # "none" THEN Raise(ParseError(parts))
        ELSE IF part = "major"
             THEN Ok(Str(major + 1) \o <<".">> \o Str(minor) \o <<".">> \o Str(patch))
        ELSE IF part = "minor"
             THEN Ok(Str(major) \o <<".">> \o Str(minor + 1) \o <<".">> \o Str(patch))
        ELSE IF part = "patch"
             THEN Ok(Str(major) \o <<".">> \o Str(minor) \o <<".">> \o Str(patch + 1))
        ELSE Raise("ValueError_part")

bumpversion(version, part) ==
    LET parts == Split(version)
        major == Int(parts[1])
        minor == Int(parts[2])
        patch == Int(parts[3])
    IN  IF ParseError(parts) # "none" THEN Raise(ParseError(parts))
        ELSE IF part = "major"
             THEN Ok(Str(major + 1) \o <<".", "0", ".", "0">>)
        ELSE IF part = "minor"
             THEN Ok(Str(major) \o <<".">> \o Str(minor + 1) \o <<".", "0">>)
        ELSE IF part = "patch"
             THEN Ok(Str(major) \o <<".">> \o Str(minor) \o <<".">> \o Str(patch + 1))
        ELSE Raise("ValueError_part")

which_part_increases_noZeroCheck(last_version, new_version) ==
    LET last_parts == Split(last_version)
        new_parts  == Split(new_version)
        lmajor == Int(last_parts[1])
        lminor == Int(last_parts[2])
        lpatch == Int(last_parts[3])
        nmajor == Int(new_parts[1])
        nminor == Int(new_parts[2])
        npatch == Int(new_parts[3])
    IN  IF ~ \A i \in 1..Len(last_parts \o new_parts) :
               IsDigit((last_parts \o new_parts)[i])
        THEN Raise("AssertionError")
        ELSE IF Len(last_parts) # 3 \/ Len(new_parts) # 3
        THEN Raise("ValueError_unpack")
        ELSE IF lmajor + 1 = nmajor
        THEN Ok("major")
        ELSE IF lmajor = nmajor /\ lminor + 1 = nminor
        THEN Ok("minor")
        ELSE IF lmajor = nmajor /\ lminor = nminor /\ lpatch + 1 = npatch
        THEN Ok("patch")
        ELSE Raise("ValueError_successor")

which_part_increases_firstThree(last_version, new_version) ==
    LET last_parts == Split(last_version)
        new_parts  == Split(new_version)
        lmajor == Int(last_parts[1])
        lminor == Int(last_parts[2])
        lpatch == Int(last_parts[3])
        nmajor == Int(new_parts[1])
        nminor == Int(new_parts[2])
        npatch == Int(new_parts[3])
    IN  IF ~ \A i \in 1..Len(last_parts \o new_parts) :
               IsDigit((last_parts \o new_parts)[i])
        THEN Raise("AssertionError")
        ELSE IF Len(last_parts) < 3 \/ Len(new_parts) < 3
        THEN Raise("ValueError_unpack")
        ELSE IF lmajor + 1 = nmajor /\ nminor = 0 /\ npatch = 0
        THEN Ok("major")
        ELSE IF lmajor = nmajor /\ lminor + 1 = nminor /\ npatch = 0
        THEN Ok("minor")
        ELSE IF lmajor = nmajor /\ lminor = nminor /\ lpatch + 1 = npatch
        THEN Ok("patch")
        ELSE Raise("ValueError_successor")

which_part_increases(last_version, new_version) ==
    LET last_parts == Split(last_version)
        new_parts  == Split(new_version)
        lmajor == Int(last_parts[1])
        lminor == Int(last_parts[2])
        lpatch == Int(last_parts[3])
        nmajor == Int(new_parts[1])
        nminor == Int(new_parts[2])
        npatch == Int(new_parts[3])
    IN  IF ~ \A i \in 1..Len(last_parts \o new_parts) :
               IsDigit((last_parts \o new_parts)[i])
        THEN Raise("AssertionError")
        ELSE IF Len(last_parts) # 3 \/ Len(new_parts) # 3
        THEN Raise("ValueError_unpack")
        ELSE IF lmajor + 1 = nmajor /\ nminor = 0 /\ npatch = 0
        THEN Ok("major")
        ELSE IF lmajor = nmajor /\ lminor + 1 = nminor /\ npatch = 0
        THEN Ok("minor")
        ELSE IF lmajor = nmajor /\ lminor = nminor /\ lpatch + 1 = npatch
        THEN Ok("patch")
        ELSE Raise("ValueError_successor")

-----------------------------------------------------------------------------
(* The working directory.                                                  *)

\* importlib.import_module(name) loads the source file name + '.py'
ModuleFile(name) == name \o <<".", "p", "y">>

FileNames == {version_location, ModuleFile(version_location)}

NoFile == [exists |-> FALSE, text |-> <<>>]

\* the text "__version__ = '" + v + "'"
VersionAssignment(v) == <<"__version__ = ", "'">> \o v \o <<"'">>

\* the value the assignment binds __version__ to when the module is executed
AssignedValue(text) == SubSeq(text, 3, Len(text) - 1)

\* open(path, 'wt').write(text): creates or truncates the file at path
WriteFile(fs, path, text) == [fs EXCEPT ![path] = [exists |-> TRUE, text |-> text]]

get_version(fs, location) ==
    IF fs[ModuleFile(location)].exists
    THEN Ok(AssignedValue(fs[ModuleFile(location)].text))
    ELSE Raise("ImportError")

-----------------------------------------------------------------------------
(* Values the operator may give the repository between two invocations.    *)

master == <<"m", "a", "s", "t", "e", "r">>

v1_12_2  == <<"1", ".", "1", "2", ".", "2">>
v1_12_3  == <<"1", ".", "1", "2", ".", "3">>
v1_13_0  == <<"1", ".", "1", "3", ".", "0">>
v1_14_0  == <<"1", ".", "1", "4", ".", "0">>
v2_1_0   == <<"2", ".", "1", ".", "0">>
v1_9_9   == <<"1", ".", "9", ".", "9">>
v01_12_2 == <<"0", "1", ".", "1", "2", ".", "2">>
v1_13_00 == <<"1", ".", "1", "3", ".", "0", "0">>
v1_2     == <<"1", ".", "2">>
v1_2_x   == <<"1", ".", "2", ".", "x">>
v1_2_3_4 == <<"1", ".", "2", ".", "3", ".", "4">>
v1__3    == <<"1", ".", ".", "3">>
vm1_2_3  == <<"-", "1", ".", "2", ".", "3">>

\* values of __version__ the operator may commit
Markers == {v1_12_2, v1_9_9, v01_12_2, v1_2_x}

\* branches the operator may check out by hand
BranchNames ==
    {develop, master,
     <<"r", "e", "l">>,
     release_branch_prefix,
     <<"h", "o", "t", "f", "i", "x", "/">> \o release_branch_prefix \o v1_13_0}
    \cup {release_branch_prefix \o v :
            v \in {v1_12_2, v1_13_0, v1_14_0, v2_1_0, v1_13_00, v1_2_x}}

\* values of the command line's part argument
\* ("" stands for a command line without the argument)
PartArgs == choices \cup {"build", ""}

-----------------------------------------------------------------------------
(* External calls and raised exceptions of one invocation, in order.       *)

Ev(op, arg) == [op |-> op, arg |-> arg]

\* the state a step of the script leaves behind
Step(err, log, br, fs) == [err |-> err, log |-> log, branch |-> br, files |-> fs]

\* an exception leaves the function: nothing after the raise is executed
Fail(err, log, br, fs) == Step(err, Append(log, Ev("raise", <<err>>)), br, fs)

\* what the external commands of one invocation report
Envs == [tests_ok : BOOLEAN, checkout_ok : BOOLEAN, push_ok : BOOLEAN,
         hub_ok : BOOLEAN]

current_branch == branch

is_worktree_dirty == dirty

is_release_branch_wholeName(name) == name = release_branch_prefix

\* current_branch()[:len(release_branch_prefix)] == release_branch_prefix
is_release_branch(name) ==
    Head_(name, Len(release_branch_prefix)) = release_branch_prefix

open_release_branch_noPrefix(version, env, log) ==
    LET branch_name == version
        log1 == Append(log, Ev("checkout_b", branch_name))
        log2 == Append(log1, Ev("push", branch_name))
    IN  IF ~env.checkout_ok
        THEN Fail("CalledProcessError_checkout", log1, branch, files)
        ELSE IF ~env.push_ok
        THEN Fail("CalledProcessError_push", log2, branch_name, files)
        ELSE Step("none", log2, branch_name, files)

open_release_branch_forceCheckout(version, env, log) ==
    LET branch_name == release_branch_prefix \o version
        log1 == Append(log, Ev("checkout_b", branch_name))
        log2 == Append(log1, Ev("push", branch_name))
    IN  IF ~env.checkout_ok
        THEN Fail("CalledProcessError_checkout", log1, branch_name, files)
        ELSE IF ~env.push_ok
        THEN Fail("CalledProcessError_push", log2, branch_name, files)
        ELSE Step("none", log2, branch_name, files)

open_release_branch(version, env, log) ==
    LET branch_name == release_branch_prefix \o version
        log1 == Append(log, Ev("checkout_b", branch_name))
        log2 == Append(log1, Ev("push", branch_name))
    IN  IF ~env.checkout_ok
        THEN Fail("CalledProcessError_checkout", log1, branch, files)
        ELSE IF ~env.push_ok
        THEN Fail("CalledProcessError_push", log2, branch_name, files)
        ELSE Step("none", log2, branch_name, files)

init_release_noChecks(part, env, log) ==
    LET log1 == Append(log, Ev("current_branch", <<>>))
        log2 == Append(log1, Ev("is_worktree_dirty", <<>>))
        log4 == Append(log2, Ev("get_version", <<>>))
        current_version == get_version(files, version_location)
        new_version == bumpversion(current_version.val, part)
        opened == open_release_branch(new_version.val, env, log4)
    IN  IF current_version.err # "none"
        THEN Fail(current_version.err, log4, branch, files)
        ELSE IF new_version.err # "none"
        THEN Fail(new_version.err, log4, branch, files)
        ELSE IF opened.err # "none"
        THEN opened
        ELSE Step("none",
                  Append(opened.log,
                         Ev("hub_pull_request",
                            IF env.hub_ok THEN <<"0">> ELSE <<"1">>)),
                  opened.branch, opened.files)

init_release_dirtyFirst(part, env, log) ==
    LET log1 == Append(log, Ev("is_worktree_dirty", <<>>))
        log2 == Append(log1, Ev("current_branch", <<>>))
        log3 == Append(log1, Ev("git_status", <<>>))
        log4 == Append(log2, Ev("get_version", <<>>))
        current_version == get_version(files, version_location)
        new_version == bumpversion(current_version.val, part)
        opened == open_release_branch(new_version.val, env, log4)
    IN  IF is_worktree_dirty
        THEN Fail("EnvironmentError_dirty", log3, branch, files)
        ELSE IF ~(current_branch = develop)
        THEN Fail("EnvironmentError_branch", log2, branch, files)
        ELSE IF current_version.err # "none"
        THEN Fail(current_version.err, log4, branch, files)
        ELSE IF new_version.err # "none"
        THEN Fail(new_version.err, log4, branch, files)
        ELSE IF opened.err # "none"
        THEN opened
        ELSE Step("none",
                  Append(opened.log,
                         Ev("hub_pull_request",
                            IF env.hub_ok THEN <<"0">> ELSE <<"1">>)),
                  opened.branch, opened.files)

init_release_prFirst(part, env, log) ==
    LET log1 == Append(log, Ev("current_branch", <<>>))
        log2 == Append(log1, Ev("is_worktree_dirty", <<>>))
        log3 == Append(log2, Ev("git_status", <<>>))
        log4 == Append(log2, Ev("get_version", <<>>))
        log5 == Append(log4, Ev("hub_pull_request",
                                IF env.hub_ok THEN <<"0">> ELSE <<"1">>))
        current_version == get_version(files, version_location)
        new_version == bumpversion(current_version.val, part)
    IN  IF ~(current_branch = develop)
        THEN Fail("EnvironmentError_branch", log1, branch, files)
        ELSE IF is_worktree_dirty
        THEN Fail("EnvironmentError_dirty", log3, branch, files)
        ELSE IF current_version.err # "none"
        THEN Fail(current_version.err, log4, branch, files)
        ELSE IF new_version.err # "none"
        THEN Fail(new_version.err, log4, branch, files)
        ELSE open_release_branch(new_version.val, env, log5)

init_release(part, env, log) ==
    LET log1 == Append(log, Ev("current_branch", <<>>))
        log2 == Append(log1, Ev("is_worktree_dirty", <<>>))
        log3 == Append(log2, Ev("git_status", <<>>))
        log4 == Append(log2, Ev("get_version", <<>>))
        current_version == get_version(files, version_location)
        new_version == bumpversion(current_version.val, part)
        opened == open_release_branch(new_version.val, env, log4)
    IN  IF ~(current_branch = develop)
        THEN Fail("EnvironmentError_branch", log1, branch, files)
        ELSE IF is_worktree_dirty
        THEN Fail("EnvironmentError_dirty", log3, branch, files)
        ELSE IF current_version.err # "none"
        THEN Fail(current_version.err, log4, branch, files)
        ELSE IF new_version.err # "none"
        THEN Fail(new_version.err, log4, branch, files)
        ELSE IF opened.err # "none"
        THEN opened
        ELSE Step("none",
                  Append(opened.log,
                         Ev("hub_pull_request",
                            IF env.hub_ok THEN <<"0">> ELSE <<"1">>)),
                  opened.branch, opened.files)

establish_new_version_noCheck(location, log) ==
    LET log1 == Append(log, Ev("get_version", <<>>))
        log2 == Append(log1, Ev("current_branch", <<>>))
        last_version == get_version(files, location)
        release_version == Tail_(current_branch, Len(release_branch_prefix))
    IN  IF last_version.err # "none"
        THEN Fail(last_version.err, log1, branch, files)
        ELSE Step("none", Append(log2, Ev("write", location)), branch,
                  WriteFile(files, location, VersionAssignment(release_version)))

establish_new_version(location, log) ==
    LET log1 == Append(log, Ev("get_version", <<>>))
        log2 == Append(log1, Ev("current_branch", <<>>))
        last_version == get_version(files, location)
        release_version == Tail_(current_branch, Len(release_branch_prefix))
        increased == which_part_increases(last_version.val, release_version)
    IN  IF last_version.err # "none"
        THEN Fail(last_version.err, log1, branch, files)
        ELSE IF increased.err # "none"
        THEN Fail(increased.err, log2, branch, files)
        ELSE Step("none", Append(log2, Ev("write", location)), branch,
                  WriteFile(files, location, VersionAssignment(release_version)))

finalise_release_noGate(env, log) ==
    establish_new_version(version_location,
                          Append(log, Ev("ensure_tests",
                                         IF env.tests_ok THEN <<"True">>
                                         ELSE <<"False">>)))

finalise_release_backToDevelop(env, log) ==
    LET tests_successful == env.tests_ok
        log1 == Append(log, Ev("ensure_tests",
                               IF tests_successful THEN <<"True">>
                               ELSE <<"False">>))
        established == establish_new_version(version_location, log1)
    IN  IF ~tests_successful
        THEN Fail("EnvironmentError_tests", log1, branch, files)
        ELSE IF established.err # "none"
        THEN established
        ELSE Step("none", established.log, develop, established.files)

finalise_release(env, log) ==
    LET tests_successful == env.tests_ok
        log1 == Append(log, Ev("ensure_tests",
                               IF tests_successful THEN <<"True">>
                               ELSE <<"False">>))
    IN  IF ~tests_successful
        THEN Fail("EnvironmentError_tests", log1, branch, files)
        ELSE establish_new_version(version_location, log1)

main_checksPart(part, env) ==
    LET log1 == <<Ev("current_branch", <<>>)>>
        finalised == finalise_release(env, Append(log1, Ev("call", <<"finalise_release">>)))
        increased == which_part_increases(
                         get_version(files, version_location).val,
                         Tail_(current_branch, Len(release_branch_prefix)))
    IN  IF part \notin choices
        THEN Fail("SystemExit_2", <<>>, branch, files)
        ELSE IF ~is_release_branch(current_branch)
        THEN init_release(part, env, Append(log1, Ev("call", <<"init_release">>)))
        ELSE IF finalised.err = "none" /\ increased.val # part
        THEN Fail("ValueError_part", finalised.log, branch, files)
        ELSE finalised

main_noChoices(part, env) ==
    LET log1 == <<Ev("current_branch", <<>>)>>
    IN  IF ~is_release_branch(current_branch)
        THEN init_release(part, env, Append(log1, Ev("call", <<"init_release">>)))
        ELSE finalise_release(env, Append(log1, Ev("call", <<"finalise_release">>)))

\* the script run as a program with the command line argument part
main(part, env) ==
    LET log1 == <<Ev("current_branch", <<>>)>>
    IN  IF part \notin choices
        THEN Fail("SystemExit_2", <<>>, branch, files)
        ELSE IF ~is_release_branch(current_branch)
        THEN init_release(part, env, Append(log1, Ev("call", <<"init_release">>)))
        ELSE finalise_release(env, Append(log1, Ev("call", <<"finalise_release">>)))

-----------------------------------------------------------------------------
(* The state machine: invocations of the tool, and the operator's own      *)
(* changes to the repository between them.                                 *)

\* after_failed_gate: the invocation right before this one failed at the test
\* gate, and the operator has not acted in between
Idle == [kind |-> "idle", part |-> "none", err |-> "none", log |-> <<>>,
         branch0 |-> <<>>, dirty0 |-> FALSE, files0 |-> [f \in FileNames |-> NoFile],
         after_failed_gate |-> FALSE]

NoCall == [fn |-> "none", a |-> <<>>, b |-> <<>>, part |-> "none",
           res |-> Raise("none")]

Init ==
    /\ branch = develop
    /\ dirty = FALSE
    /\ files = [f \in FileNames |->
                  IF f = ModuleFile(version_location)
                  THEN [exists |-> TRUE, text |-> VersionAssignment(v1_12_2)]
                  ELSE NoFile]
    /\ last = Idle
    /\ call = NoCall

\* python release.py <part>
Invoke(part, env) ==
    LET r == main(part, env)
    IN  /\ branch' = r.branch
        /\ files' = r.files
        /\ last' = [kind |-> "run", part |-> part, err |-> r.err, log |-> r.log,
                    branch0 |-> branch, dirty0 |-> dirty, files0 |-> files,
                    after_failed_gate |->
                        (last.kind = "run" /\ last.err = "EnvironmentError_tests")]
        /\ UNCHANGED <<dirty, call>>

\* the operator runs `git checkout <name>`
OperatorChecksOut(name) ==
    /\ name # branch
    /\ branch' = name
    /\ last' = Idle
    /\ UNCHANGED <<dirty, files, call>>

\* the operator edits a tracked file, or commits or stashes the edits
OperatorChangesTree ==
    /\ dirty' = ~dirty
    /\ last' = Idle
    /\ UNCHANGED <<branch, files, call>>

\* the operator commits another value of __version__ in the version module
OperatorSetsVersion(v) ==
    /\ files[ModuleFile(version_location)] # [exists |-> TRUE, text |-> VersionAssignment(v)]
    /\ files' = WriteFile(files, ModuleFile(version_location), VersionAssignment(v))
    /\ last' = Idle
    /\ UNCHANGED <<branch, dirty, call>>

Next ==
    \/ \E part \in PartArgs, env \in Envs : Invoke(part, env)
    \/ \E name \in BranchNames : OperatorChecksOut(name)
    \/ OperatorChangesTree
    \/ \E v \in Markers : OperatorSetsVersion(v)

Spec == Init /\ [][Next]_vars

-----------------------------------------------------------------------------
(* The version functions called directly, on enumerated arguments: one    *)
(* call per behaviour, from the initial state.                             *)

\* '{0}.{1}.{2}'.format(x, y, z)
Format(t) == Str(t[1]) \o <<".">> \o Str(t[2]) \o <<".">> \o Str(t[3])

Components == (0..MaxSmall) \cup {9}

VersionTexts ==
    {Format(<<x, y, z>>) : x \in Components, y \in Components, z \in Components}
    \cup {v1_12_2, v1_12_3, v1_13_0, v1_14_0,
          v01_12_2, v1_13_00, v1_2, v1_2_x,
          v1_2_3_4, v1__3, vm1_2_3}

CallBumpversion(version, part) ==
    /\ call = NoCall
    /\ call' = [fn |-> "bumpversion", a |-> version, b |-> <<>>, part |-> part,
                res |-> bumpversion(version, part)]
    /\ UNCHANGED <<branch, dirty, files, last>>

CallWhichPartIncreases(last_version, new_version) ==
    /\ call = NoCall
    /\ call' = [fn |-> "which_part_increases", a |-> last_version,
                b |-> new_version, part |-> "none",
                res |-> which_part_increases(last_version, new_version)]
    /\ UNCHANGED <<branch, dirty, files, last>>

NextCodec ==
    \/ \E version \in VersionTexts, part \in PartArgs :
          CallBumpversion(version, part)
    \/ \E last_version \in VersionTexts, new_version \in VersionTexts :
          CallWhichPartIncreases(last_version, new_version)

SpecCodec == Init /\ [][NextCodec]_vars

-----------------------------------------------------------------------------
(* One invocation, or one call of a version function, on a repository whose *)
(* marker and release branch hold well-formed and malformed version texts.  *)

EdgeTexts == {<<>>, v1_2, v1_2_x, v1_2_3_4, v1__3, vm1_2_3, v1_13_00,
              v1_12_2, v1_13_0}

\* git refuses a branch name that holds '..'
EdgeBranches == {develop} \cup {release_branch_prefix \o t : t \in EdgeTexts \ {v1__3}}

InitOnce ==
    /\ branch \in EdgeBranches
    /\ dirty = FALSE
    /\ \E v \in EdgeTexts :
          files = [f \in FileNames |->
                     IF f = ModuleFile(version_location)
                     THEN [exists |-> TRUE, text |-> VersionAssignment(v)]
                     ELSE NoFile]
    /\ last = Idle
    /\ call = NoCall

InvokeOnce(part, env) == last = Idle /\ call = NoCall /\ Invoke(part, env)

BumpversionOnce(version, part) == last = Idle /\ CallBumpversion(version, part)

WhichPartIncreasesOnce(last_version, new_version) ==
    last = Idle /\ CallWhichPartIncreases(last_version, new_version)

NextOnce ==
    \/ \E part \in PartArgs, env \in Envs : InvokeOnce(part, env)
    \/ \E version \in EdgeTexts, part \in PartArgs : BumpversionOnce(version, part)
    \/ \E last_version \in EdgeTexts, new_version \in EdgeTexts :
          WhichPartIncreasesOnce(last_version, new_version)

SpecOnce == InitOnce /\ [][NextOnce]_vars

-----------------------------------------------------------------------------
(* Vocabulary of the properties.                                           *)

\* s begins with the characters of p
StartsWith(s, p) == Len(s) >= Len(p) /\ \A i \in 1..Len(p) : s[i] = p[i]

\* a version text 'X.Y.Z': exactly two dots, and digits between them
IsVersion(s) ==
    /\ Cardinality({i \in 1..Len(s) : s[i] = "."}) = 2
    /\ \A i \in 1..Len(s) : s[i] \in Digits \cup {"."}
    /\ Len(s) > 0 /\ s[1] # "." /\ s[Len(s)] # "."
    /\ \A i \in 1..(Len(s) - 1) : ~(s[i] = "." /\ s[i + 1] = ".")

\* the version (major, minor, patch) a version text denotes
Triple(s) == LET parts == Split(s)
             IN  <<Int(parts[1]), Int(parts[2]), Int(parts[3])>>

\* the bump of the specification: increment one part, reset the lower ones
BumpTriple(t, part) ==
    IF part = "major" THEN <<t[1] + 1, 0, 0>>
    ELSE IF part = "minor" THEN <<t[1], t[2] + 1, 0>>
    ELSE <<t[1], t[2], t[3] + 1>>

\* b is reachable from a by exactly one bump
DirectSuccessor(a, b) ==
    \E part \in choices : Triple(b) = BumpTriple(Triple(a), part)

\* an invocation with a valid part argument has just ended
Ran == last.kind = "run" /\ last.part \in choices

Count(log, op) == Cardinality({i \in 1..Len(log) : log[i].op = op})

Called(log, f) == \E i \in 1..Len(log) : log[i] = Ev("call", <<f>>)

RanInit == Ran /\ Called(last.log, "init_release")

RanFinalise == Ran /\ Called(last.log, "finalise_release")

TestsReported(log, flag) ==
    \E i \in 1..Len(log) : log[i] = Ev("ensure_tests", <<flag>>)

\* the version read from the marker when the invocation started, and now
Marker0 == get_version(last.files0, version_location)

MarkerNow == get_version(files, version_location)

\* the version text embedded in the name of the branch the invocation started on
Suffix0 == Tail_(last.branch0, Len(release_branch_prefix))

-----------------------------------------------------------------------------
(* Properties.                                                             *)

\* C1: an invocation with a valid part runs exactly one of init_release and
\* finalise_release: finalise_release iff the name of the current branch starts
\* with 'release/v' (the bare prefix included), init_release for any other name.
C1_Dispatch ==
    Ran =>
      /\ Count(last.log, "call") = 1
      /\ Called(last.log, "finalise_release")
            <=> StartsWith(last.branch0, release_branch_prefix)
      /\ Called(last.log, "init_release")
            <=> ~StartsWith(last.branch0, release_branch_prefix)
      /\ Called(last.log, "finalise_release") => last.log[3].op = "ensure_tests"
      /\ Called(last.log, "init_release") => last.log[3].op = "current_branch"

C1_Witness ==
    /\ RanFinalise
    /\ last.branch0 = release_branch_prefix

\* C2: when finalise_release runs and the tests fail, it raises the tests-failed
\* error before the marker or the branch name is read: no file is written, and
\* branch and files are as before, whatever the branch suffix and the marker.
C2_TestGate ==
    (RanFinalise /\ TestsReported(last.log, "False")) =>
      /\ last.err = "EnvironmentError_tests"
      /\ Count(last.log, "write") = 0
      /\ Count(last.log, "get_version") = 0
      /\ Count(last.log, "current_branch") = 1
      /\ files = last.files0
      /\ branch = last.branch0

C2_Witness ==
    /\ RanFinalise
    /\ TestsReported(last.log, "False")
    /\ Suffix0 = v1_2_x
    /\ last.err = "EnvironmentError_tests"

\* C3 (as claimed): when finalise_release runs on 'release/v' + c with passing
\* tests and c a direct successor of the marker, it succeeds with exactly one
\* marker write, and reading the marker afterwards yields c.
C3_FinaliseWritesMarker ==
    (/\ RanFinalise
     /\ TestsReported(last.log, "True")
     /\ Marker0.err = "none" /\ IsVersion(Marker0.val) /\ IsVersion(Suffix0)
     /\ DirectSuccessor(Marker0.val, Suffix0)) =>
      /\ last.err = "none"
      /\ Count(last.log, "write") = 1
      /\ MarkerNow = Ok(Suffix0)

\* C4: init_release on 'develop' with a clean tree and a valid marker v creates
\* a branch exactly once, named 'release/v' + bump(v, part), and writes no file;
\* when it succeeds the working copy is on that branch, and the next invocation
\* runs finalise_release.
C4_State ==
    (/\ RanInit
     /\ last.branch0 = develop /\ ~last.dirty0
     /\ Marker0.err = "none" /\ IsVersion(Marker0.val)) =>
      LET name == release_branch_prefix
                    \o Format(BumpTriple(Triple(Marker0.val), last.part))
      IN  /\ Count(last.log, "checkout_b") = 1
          /\ \A i \in 1..Len(last.log) :
                last.log[i].op = "checkout_b" => last.log[i].arg = name
          /\ Count(last.log, "write") = 0
          /\ files = last.files0
          /\ last.err = "none" => branch = name

C4_Step ==
    (/\ RanInit /\ last.err = "none"
     /\ last'.kind = "run" /\ last'.part \in choices) =>
      Called(last'.log, "finalise_release")

C4_Initiate == [](C4_State) /\ [][C4_Step]_vars

C4_Witness ==
    /\ RanInit /\ last.err = "none"
    /\ last.branch0 = develop
    /\ Marker0 = Ok(v1_9_9) /\ last.part = "minor"
    /\ branch = release_branch_prefix \o <<"1", ".", "1", "0", ".", "0">>

\* C5: when finalise_release runs with passing tests and the version in the
\* branch name is not a direct successor of the marker, it raises the
\* not-a-direct-successor error and the marker keeps its value.
C5_SuccessionGuard ==
    (/\ RanFinalise
     /\ TestsReported(last.log, "True")
     /\ Marker0.err = "none" /\ IsVersion(Marker0.val) /\ IsVersion(Suffix0)
     /\ ~DirectSuccessor(Marker0.val, Suffix0)) =>
      /\ last.err = "ValueError_successor"
      /\ Count(last.log, "write") = 0
      /\ files = last.files0
      /\ MarkerNow = Marker0

C5_Witness ==
    /\ RanFinalise
    /\ TestsReported(last.log, "True")
    /\ Marker0 = Ok(v1_12_2) /\ Suffix0 = v1_14_0
    /\ last.err = "ValueError_successor"

\* C6 (as claimed): after a successful finalise_release, the next invocation on
\* the same branch with passing tests fails in the succession check and writes
\* no file.
C6_Step ==
    (/\ RanFinalise /\ last.err = "none"
     /\ last'.kind = "run" /\ last'.part \in choices
     /\ TestsReported(last'.log, "True")) =>
      /\ last'.err = "ValueError_successor"
      /\ Count(last'.log, "write") = 0

C6_NoSecondWrite == [][C6_Step]_vars

\* C7: a branch is created only from 'develop' with a clean tree; on any other
\* non-release branch, or with a dirty tree, init_release fails and nothing is
\* created, pushed, opened as a pull request or written.
C7_InitPreconditions ==
    /\ (Ran /\ Count(last.log, "checkout_b") > 0) =>
          (last.branch0 = develop /\ ~last.dirty0)
    /\ (RanInit /\ (last.branch0 # develop \/ last.dirty0)) =>
          /\ last.err \in {"EnvironmentError_branch", "EnvironmentError_dirty"}
          /\ Count(last.log, "checkout_b") = 0
          /\ Count(last.log, "push") = 0
          /\ Count(last.log, "hub_pull_request") = 0
          /\ Count(last.log, "write") = 0
          /\ branch = last.branch0
          /\ files = last.files0

C7_Witness ==
    /\ RanInit
    /\ last.branch0 = develop /\ last.dirty0
    /\ last.err = "EnvironmentError_dirty"
    /\ branch = develop

\* C8: init_release checks the branch before the tree: git status is printed
\* exactly when the branch is 'develop' and the tree is dirty, right before the
\* dirty-tree error is raised; on a wrong branch with a dirty tree the error is
\* the wrong-branch error and git status is not printed.
C8_CheckOrder ==
    Ran =>
      /\ Count(last.log, "git_status") > 0
            <=> (RanInit /\ last.branch0 = develop /\ last.dirty0)
      /\ Count(last.log, "git_status") <= 1
      /\ \A i \in 1..Len(last.log) :
            last.log[i].op = "git_status" =>
              /\ i + 1 = Len(last.log)
              /\ last.log[i + 1] = Ev("raise", <<"EnvironmentError_dirty">>)
              /\ last.err = "EnvironmentError_dirty"
      /\ \A i, j \in 1..Len(last.log) :
            (/\ RanInit /\ i >= 3
             /\ last.log[i].op = "current_branch"
             /\ last.log[j].op = "is_worktree_dirty") => i < j
      /\ (RanInit /\ last.branch0 # develop /\ last.dirty0) =>
            /\ last.err = "EnvironmentError_branch"
            /\ Count(last.log, "is_worktree_dirty") = 0

C8_Witness ==
    /\ RanInit
    /\ last.branch0 = master /\ last.dirty0
    /\ last.err = "EnvironmentError_branch"
    /\ Count(last.log, "git_status") = 0

\* C9: for every valid version (major, minor, patch) bumpversion returns
\* (major+1, 0, 0) for 'major', (major, minor+1, 0) for 'minor' and
\* (major, minor, patch+1) for 'patch', as the text 'X.Y.Z', and raises the
\* invalid-part error for any other part.
C9_BumpReset ==
    (call.fn = "bumpversion" /\ IsVersion(call.a)) =>
      LET t == Triple(call.a)
      IN  /\ call.part = "major" => call.res = Ok(Format(<<t[1] + 1, 0, 0>>))
          /\ call.part = "minor" => call.res = Ok(Format(<<t[1], t[2] + 1, 0>>))
          /\ call.part = "patch" => call.res = Ok(Format(<<t[1], t[2], t[3] + 1>>))
          /\ call.part \notin choices => call.res.err = "ValueError_part"
          /\ call.res.err = "none" =>
                (IsVersion(call.res.val)
                 /\ Triple(call.res.val) = BumpTriple(t, call.part))

C9_Witness ==
    /\ call.fn = "bumpversion"
    /\ call.a = v1_9_9 /\ call.part = "minor"
    /\ call.res = Ok(<<"1", ".", "1", "0", ".", "0">>)

\* C10: for valid versions a, b and every part p, which_part_increases(a, b)
\* returns p iff b = bump(a, p); at most one part satisfies this, and when none
\* does it raises the not-a-direct-successor error.
C10_ClassifyAgrees ==
    (call.fn = "which_part_increases" /\ IsVersion(call.a) /\ IsVersion(call.b)) =>
      LET explains == {p \in choices :
                         Triple(call.b) = BumpTriple(Triple(call.a), p)}
      IN  /\ Cardinality(explains) <= 1
          /\ \A p \in choices : (call.res = Ok(p)) <=> (p \in explains)
          /\ explains = {} <=> call.res.err = "ValueError_successor"
          /\ call.res.err \in {"none", "ValueError_successor"}

C10_Witness ==
    /\ call.fn = "which_part_increases"
    /\ call.a = v1_12_2
    /\ call.b = v2_1_0
    /\ call.res.err = "ValueError_successor"

\* dot-separated runs of digits, none of them empty
DigitRuns(s) ==
    /\ \A i \in 1..Len(s) : s[i] \in Digits \cup {"."}
    /\ Len(s) > 0 /\ s[1] # "." /\ s[Len(s)] # "."
    /\ \A i \in 1..(Len(s) - 1) : ~(s[i] = "." /\ s[i + 1] = ".")

\* the outcome of finalise_release started on branch b0 with the files f0 and
\* the tests' result: the error err, and the files f1 and branch b1 left behind
FinaliseOutcome(b0, f0, tests_ok, err, f1, b1) ==
    LET marker == get_version(f0, version_location)
        suffix == Tail_(b0, Len(release_branch_prefix))
    IN  /\ b1 = b0
        /\ IF ~tests_ok
           THEN err = "EnvironmentError_tests" /\ f1 = f0
           ELSE IF marker.err # "none"
           THEN err = marker.err /\ f1 = f0
           ELSE IF ~(DigitRuns(marker.val) /\ DigitRuns(suffix))
           THEN err = "AssertionError" /\ f1 = f0
           ELSE IF ~(IsVersion(marker.val) /\ IsVersion(suffix))
           THEN err = "ValueError_unpack" /\ f1 = f0
           ELSE IF ~DirectSuccessor(marker.val, suffix)
           THEN err = "ValueError_successor" /\ f1 = f0
           ELSE /\ err = "none"
                /\ f1 = [f0 EXCEPT ![version_location] =
                           [exists |-> TRUE, text |-> VersionAssignment(suffix)]]

\* C11: a finalise_release that fails at the test gate leaves branch, tree and
\* files as they were, any number of times; the finalise_release with passing
\* tests that follows ends as it would have ended on the state before them.
C11_Frame ==
    (/\ last'.kind = "run" /\ last'.part \in choices
     /\ Called(last'.log, "finalise_release")
     /\ TestsReported(last'.log, "False")) =>
      /\ branch' = branch /\ dirty' = dirty /\ files' = files
      /\ last'.err = "EnvironmentError_tests"

C11_Rerun ==
    (/\ RanFinalise /\ last.err = "EnvironmentError_tests"
     /\ last'.kind = "run" /\ last'.part \in choices) =>
      /\ Called(last'.log, "finalise_release")
      /\ FinaliseOutcome(last.branch0, last.files0,
                         TestsReported(last'.log, "True"),
                         last'.err, files', branch')

C11_RerunAfterFailedGate == [][C11_Frame]_vars /\ [][C11_Rerun]_vars

C11_Witness ==
    /\ RanFinalise
    /\ last.after_failed_gate
    /\ TestsReported(last.log, "True")
    /\ last.err = "none"
    /\ Marker0 = Ok(v1_12_2) /\ Suffix0 = v1_13_0
    /\ files[version_location].exists

\* C12: when the part argument is missing or not one of 'major', 'minor',
\* 'patch', the argument parser rejects the invocation before anything else
\* runs: no branch or tree query, no branch creation, no test run, no write.
C12_InvalidPart ==
    (last.kind = "run" /\ last.part \notin choices) =>
      /\ last.err = "SystemExit_2"
      /\ last.log = <<Ev("raise", <<"SystemExit_2">>)>>
      /\ \A op \in {"current_branch", "is_worktree_dirty", "git_status",
                    "get_version", "checkout_b", "push", "hub_pull_request",
                    "ensure_tests", "write", "call"} : Count(last.log, op) = 0
      /\ branch = last.branch0
      /\ files = last.files0

C12_Witness ==
    /\ last.kind = "run"
    /\ last.part = ""
    /\ last.branch0 = develop /\ ~last.dirty0
    /\ Marker0 = Ok(v1_12_2)
    /\ last.err = "SystemExit_2"

\* C13: bumpversion and which_part_increases raise for every version text that
\* is not three dot-separated runs of digits; so finalise_release on a branch
\* with a malformed suffix writes nothing, and init_release with a malformed
\* marker creates no branch.
C13_MalformedRejected ==
    /\ (call.fn = "bumpversion" /\ ~IsVersion(call.a)) =>
          call.res.err \in {"AssertionError", "ValueError_unpack"}
    /\ (call.fn = "which_part_increases"
        /\ (~IsVersion(call.a) \/ ~IsVersion(call.b))) =>
          call.res.err \in {"AssertionError", "ValueError_unpack"}
    /\ (/\ RanFinalise /\ TestsReported(last.log, "True")
        /\ Marker0.err = "none"
        /\ (~IsVersion(Suffix0) \/ ~IsVersion(Marker0.val))) =>
          /\ last.err \in {"AssertionError", "ValueError_unpack"}
          /\ Count(last.log, "write") = 0
          /\ files = last.files0
    /\ (/\ RanInit /\ last.branch0 = develop /\ ~last.dirty0
        /\ Marker0.err = "none" /\ ~IsVersion(Marker0.val)) =>
          /\ last.err \in {"AssertionError", "ValueError_unpack"}
          /\ Count(last.log, "checkout_b") = 0
          /\ Count(last.log, "push") = 0
          /\ branch = last.branch0

C13_Witness ==
    /\ RanFinalise /\ TestsReported(last.log, "True")
    /\ Marker0 = Ok(v1_12_2)
    /\ Suffix0 = vm1_2_3
    /\ last.err = "AssertionError"
    /\ files = last.files0

\* C14: finalise_release, whether it succeeds or fails, creates, switches and
\* pushes no branch and opens no pull request: the branch after it is the
\* branch before it, and no invocation started on a release branch ends on a
\* branch that is not a release branch.
C14_FinaliseTerminal ==
    /\ RanFinalise =>
          /\ Count(last.log, "checkout_b") = 0
          /\ Count(last.log, "push") = 0
          /\ Count(last.log, "hub_pull_request") = 0
          /\ branch = last.branch0
    /\ (last.kind = "run" /\ StartsWith(last.branch0, release_branch_prefix)) =>
          StartsWith(branch, release_branch_prefix)

C14_Witness ==
    /\ RanFinalise
    /\ last.err = "none"
    /\ Count(last.log, "write") = 1
    /\ branch = release_branch_prefix \o v1_13_0

\* C15 (as claimed): whenever finalise_release writes the marker, the text
\* written is the canonical 'major.minor.patch' without leading zeros: it is
\* bumpversion(previous marker, p) for one part p.
C15_CanonicalMarker ==
    (RanFinalise /\ Count(last.log, "write") = 1) =>
      LET written == AssignedValue(files[version_location].text)
      IN  /\ IsVersion(written)
          /\ written = Format(Triple(written))
          /\ \E p \in choices : bumpversion(Marker0.val, p) = Ok(written)

\* C16 (as claimed): when init_release(p) has succeeded from the marker v and
\* finalise_release runs next on the created branch with passing tests, it
\* succeeds, p is the part that explains the bump, and the marker becomes
\* bump(v, p); a finalise_release succeeds only when the branch version is a
\* direct successor of the marker it reads.
C16_AfterInit ==
    (/\ RanInit /\ last.err = "none"
     /\ last'.kind = "run" /\ last'.part \in choices
     /\ TestsReported(last'.log, "True")) =>
      LET v == Triple(Marker0.val)
          c == Tail_(branch, Len(release_branch_prefix))
      IN  /\ Called(last'.log, "finalise_release")
          /\ last'.err = "none"
          /\ {p \in choices : Triple(c) = BumpTriple(v, p)} = {last.part}

C16_MarkerBecomesBump ==
    (/\ RanInit /\ last.err = "none"
     /\ last'.kind = "run" /\ last'.part \in choices
     /\ TestsReported(last'.log, "True")) =>
      get_version(files', version_location)
        = Ok(Format(BumpTriple(Triple(Marker0.val), last.part)))

C16_OnlySuccessors ==
    (/\ last'.kind = "run"
     /\ Called(last'.log, "finalise_release")
     /\ last'.err = "none") =>
      DirectSuccessor(get_version(files, version_location).val,
                      Tail_(branch, Len(release_branch_prefix)))

C16_InitThenFinalise ==
    [][C16_AfterInit /\ C16_MarkerBecomesBump /\ C16_OnlySuccessors]_vars

\* (major, minor, patch) of a before that of b in lexicographic order
LexLess(a, b) ==
    \/ a[1] < b[1]
    \/ a[1] = b[1] /\ a[2] < b[2]
    \/ a[1] = b[1] /\ a[2] = b[2] /\ a[3] < b[3]

\* C17 (as claimed): over any sequence of invocations the persisted marker
\* changes only in a successful finalise_release, and each change replaces the
\* version v it held by a direct successor of v, which is greater than v.
C17_Step ==
    (last'.kind = "run" /\ files' # files) =>
      LET old == files[version_location]
          new == AssignedValue(files'[version_location].text)
          v   == IF old.exists THEN AssignedValue(old.text)
                 ELSE get_version(files, version_location).val
      IN  /\ Called(last'.log, "finalise_release")
          /\ last'.err = "none"
          /\ DirectSuccessor(v, new)
          /\ LexLess(Triple(v), Triple(new))

C17_MarkerMonotone == [][C17_Step]_vars

\* C18: hub pull-request is called at most once per invocation, only by
\* init_release and only right after checkout -b and push of the same branch
\* have both succeeded; a failed checkout or push ends the invocation with its
\* error, without a second attempt and without the pull request; the exit
\* status of hub does not make init_release fail.
C18_PullRequest ==
    last.kind = "run" =>
      /\ Count(last.log, "hub_pull_request") <= 1
      /\ \A i \in 1..Len(last.log) :
            last.log[i].op = "hub_pull_request" =>
              /\ RanInit
              /\ i = Len(last.log) /\ i >= 3
              /\ last.log[i - 2].op = "checkout_b"
              /\ last.log[i - 1].op = "push"
              /\ last.log[i - 1].arg = last.log[i - 2].arg
              /\ Count(last.log, "raise") = 0
              /\ last.err = "none"
      /\ last.err \in {"CalledProcessError_checkout", "CalledProcessError_push"} =>
            /\ Count(last.log, "hub_pull_request") = 0
            /\ Count(last.log, "checkout_b") = 1
            /\ Count(last.log, "push")
                 = (IF last.err = "CalledProcessError_push" THEN 1 ELSE 0)
            /\ last.log[Len(last.log)] = Ev("raise", <<last.err>>)
      /\ (RanInit /\ last.err = "none") =>
            Count(last.log, "hub_pull_request") = 1

C18_Witness ==
    /\ RanInit
    /\ last.log[Len(last.log)] = Ev("hub_pull_request", <<"1">>)
    /\ last.err = "none"
    /\ branch = release_branch_prefix \o v1_13_0

\* C19 (as claimed): whenever init_release fails, the working copy is still on
\* the branch it was on, which is no release branch.
C19_FailedInitKeepsPhase ==
    (RanInit /\ last.err # "none") =>
      /\ branch = last.branch0
      /\ ~StartsWith(branch, release_branch_prefix)

\* C19 (amended): when init_release fails before the branch is created or in
\* its creation, the working copy stays on the branch it was on and the next
\* invocation runs init_release again; when the branch was created and the push
\* failed, the working copy is on the new release branch and the next
\* invocation runs finalise_release.
C19_State ==
    (RanInit /\ last.err # "none") =>
      IF last.err = "CalledProcessError_push"
      THEN /\ last.branch0 = develop
           /\ branch # last.branch0
           /\ StartsWith(branch, release_branch_prefix)
           /\ \E i \in 1..Len(last.log) : last.log[i] = Ev("checkout_b", branch)
      ELSE /\ branch = last.branch0
           /\ ~StartsWith(branch, release_branch_prefix)

C19_Step ==
    (/\ RanInit /\ last.err # "none"
     /\ last'.kind = "run" /\ last'.part \in choices) =>
      /\ Called(last'.log, "finalise_release")
            <=> last.err = "CalledProcessError_push"
      /\ Called(last'.log, "init_release")
            <=> last.err # "CalledProcessError_push"

C19_FailedInit == [](C19_State) /\ [][C19_Step]_vars

C19_Witness ==
    /\ RanInit
    /\ last.err = "CalledProcessError_push"
    /\ last.branch0 = develop
    /\ branch = release_branch_prefix \o v1_13_0

\* C20: the outcome of finalise_release (success or error, files and branch
\* afterwards) is determined by the branch name, the files and the tests'
\* result alone: invocations that differ only in the part argument end alike,
\* and a part other than the one that explains the bump is no error.
C20_PartIgnored ==
    RanFinalise =>
      /\ FinaliseOutcome(last.branch0, last.files0,
                         TestsReported(last.log, "True"),
                         last.err, files, branch)
      /\ TestsReported(last.log, "True") \/ TestsReported(last.log, "False")

C20_Witness ==
    /\ RanFinalise
    /\ last.part = "major"
    /\ Marker0 = Ok(v1_12_2) /\ Suffix0 = v1_13_0
    /\ Triple(Suffix0) = BumpTriple(Triple(Marker0.val), "minor")
    /\ last.err = "none"
    /\ files[version_location] = [exists |-> TRUE, text |-> VersionAssignment(v1_13_0)]

====
